---- MODULE Spec2Model ----
(***************************************************************************)
(* Model of the location-extraction pipeline of the geoguesser service:    *)
(* the /extract-ylocations endpoint (main.py), the download / scene        *)
(* locator / frame capture stage (youtube_utils.py) and the per-image      *)
(* geolocation stage (geoguesser.py).                                      *)
(*                                                                         *)
(* Each request is an invocation p.  The endpoint is a synchronous FastAPI *)
(* handler, so two requests run on two worker threads and interleave at    *)
(* every external call; the only state they share is the captures          *)
(* directory, modelled by fs.                                              *)
(***************************************************************************)
EXTENDS Integers, Sequences, FiniteSets, TLC

\* ---------------------------------------------------------------- bounds
\* Longest integer list the timestamp AI answers with.
MaxLen == 3
\* Largest second-offset the timestamp AI answers with.
MaxOffset == 1

\* ------------------------------------------------------------ invocations
\* Two requests; invocation p asks for video p (two different videos).
Procs == {1, 2}

\* -------------------------------------------------------------- the files
\* downloaded_video_path = os.path.join(output_dir, "temp_video_for_analysis.mp4")
VideoPath == <<"captures", "temp_video_for_analysis.mp4", 0>>

\* image_path = os.path.join(output_dir, f"{video_id}_location_at_{ts}s.jpg")
FramePath(ts) == <<"captures", "temp_video_for_analysis_location_at_s.jpg", ts>>

\* Integers the timestamp AI may put in its list (a negative one included).
AiInts == (-1)..MaxOffset

FramePaths == {FramePath(ts) : ts \in AiInts}

Paths == {VideoPath} \cup FramePaths

\* What a path holds: nothing, the video of a request, or a frame decoded
\* from the video of a request at an offset.
NoFile == [kind |-> "none", video |-> 0, at |-> 0]

VideoFile(v) == [kind |-> "video", video |-> v, at |-> 0]

FrameFile(v, ts) == [kind |-> "frame", video |-> v, at |-> ts]

\* ------------------------------------------------------------ JSON values
\* A value of a parsed JSON object: t is its type, n its number, s its text.
\* "absent" is a key the object does not have.
JAbsent == [t |-> "absent", n |-> 0, s |-> ""]

JNull == [t |-> "null", n |-> 0, s |-> ""]

JNum(k) == [t |-> "num", n |-> k, s |-> ""]

JStr(x) == [t |-> "str", n |-> 0, s |-> x]

JFloat(k) == [t |-> "float", n |-> k, s |-> ""]

JRaise == [t |-> "raise", n |-> 0, s |-> ""]

\* dict.get(key): None for a key that is not there.
DictGet(v) == IF v.t = "absent" THEN JNull ELSE v

\* Python truthiness of a value.
Truthy(v) ==
    CASE v.t = "str" -> v.s /= ""
      [] v.t = "num" -> v.n /= 0
      [] v.t = "float" -> v.n /= 0
      [] OTHER -> FALSE

\* float(x) on a str: the text must spell a number.
ParseFloat(x) ==
    CASE x = "37" -> JFloat(37)
      [] x = "127" -> JFloat(127)
      [] OTHER -> JRaise

\* float(lat) if lat is not None else None
CoerceCoordinate(v) ==
    CASE v.t = "null" -> JNull
      [] v.t = "num" -> JFloat(v.n)
      [] v.t = "float" -> v
      [] v.t = "str" -> ParseFloat(v.s)
      [] OTHER -> JRaise

\* ------------------------------------------------ dedup and sort of offsets
SetOf(s) == {s[i] : i \in DOMAIN s}

SetMin(S) == CHOOSE m \in S : \A x \in S : m <= x

RECURSIVE SortedSeq(_)
\* sorted(S) of a set of integers
SortedSeq(S) ==
    IF S = {} THEN <<>>
    ELSE <<SetMin(S)>> \o SortedSeq(S \ {SetMin(S)})

RECURSIVE InsertSorted(_, _)
InsertSorted(x, s) ==
    IF s = <<>> THEN <<x>>
    ELSE IF x <= Head(s) THEN <<x>> \o s
    ELSE <<Head(s)>> \o InsertSorted(x, Tail(s))

RECURSIVE SortedList(_)
\* sorted(s) of a list: duplicates stay
SortedList(s) ==
    IF s = <<>> THEN <<>> ELSE InsertSorted(Head(s), SortedList(Tail(s)))

\* a slip: sorted(timestamps), the set() forgotten
DedupSortNoSet(ts) == SortedList(ts)

\* sorted(list(set(timestamps)))
DedupSort(ts) == SortedSeq(SetOf(ts))

\* ------------------------------------------------------ inputs of a request
SeqsUpTo(S, n) == UNION {[1..k -> S] : k \in 0..n}

\* What model.generate_content yields once fences are stripped and the text
\* is parsed: a raised error, text that is no JSON, a JSON value that is no
\* list, or a list (elems) of JSON values.
AiAnswer(kind, elems) == [kind |-> kind, elems |-> elems]

IntLists == {[i \in DOMAIN s |-> JNum(s[i])] : s \in SeqsUpTo(AiInts, MaxLen)}

TimestampAnswers ==
    {AiAnswer("error", <<>>), AiAnswer("badjson", <<>>), AiAnswer("notlist", <<>>),
     AiAnswer("list", <<JNum(0), JStr("1")>>)}
    \cup {AiAnswer("list", l) : l \in IntLists}

\* The answers two concurrent requests are explored with.
FewTimestampAnswers ==
    {AiAnswer("badjson", <<>>), AiAnswer("list", <<>>),
     AiAnswer("list", <<JNum(1), JNum(0), JNum(1)>>)}

\* What client.responses.create yields for one image: a raised error, an
\* empty text, text that is no JSON, a JSON value that is no object, or an
\* object with (some of) the keys name, latitude, longitude.
GeoAnswer(kind, name, lat, lng) ==
    [kind |-> kind, name |-> name, latitude |-> lat, longitude |-> lng]

GeoNames == {JAbsent, JNull, JStr(""), JStr(" "), JStr("Cafe A")}

GeoCoordinates ==
    {<<JNull, JNull>>, <<JAbsent, JAbsent>>, <<JNum(37), JNum(127)>>,
     <<JStr("37"), JNum(127)>>, <<JNum(37), JStr("n/a")>>}

GeoAnswers ==
    {GeoAnswer(k, JAbsent, JAbsent, JAbsent) : k \in {"error", "empty", "badjson", "notdict"}}
    \cup {GeoAnswer("object", nm, c[1], c[2]) : nm \in GeoNames, c \in GeoCoordinates}

FewGeoAnswers ==
    {GeoAnswer("error", JAbsent, JAbsent, JAbsent),
     GeoAnswer("object", JStr(""), JNull, JNull),
     GeoAnswer("object", JStr("Cafe A"), JNum(37), JNum(127))}

\* Processing states of an uploaded file on the remote service.
FileStates == {"PROCESSING", "ACTIVE", "FAILED"}

\* --------------------------------------------------------------- the state
VARIABLES
    pc,          \* where each invocation stands
    fs,          \* the captures directory: path -> what it holds
    dl,          \* how the download of the invocation ended
    remote,      \* the invocation's upload handle exists on the remote service
    rstate,      \* video_file.state.name
    pollBit,     \* flips at every get_file of the wait loop
    uploaded,    \* the video the invocation uploaded for analysis (0: none)
    aiResp,      \* the locator's parsed answer, while the locator runs
    timestamps,  \* the locator's result
    cap,         \* the video the open cv2.VideoCapture reads (0: not open)
    idx,         \* position of the capture loop in timestamps
    captured,    \* captured_image_paths of the capture loop
    decoded,     \* offsets whose cap.read() returned a frame
    failed,      \* offsets whose cap.read() returned none
    written,     \* frame paths the invocation wrote with cv2.imwrite
    outcome,     \* how analyze_and_capture_locations ended
    ret,         \* what analyze_and_capture_locations returned to the endpoint
    gi,          \* position of the geolocation loop in its image paths
    geoResp,     \* the answer of the image AI for the last image
    locations,   \* all_locations
    response,    \* the HTTP response of the invocation
    called,      \* the stages the invocation has invoked
    server,      \* the server process: its start-up and what the import of main.py did
    batch        \* a run of the batched extractor of geolocation.py

vars ==
    <<pc, fs, dl, remote, rstate, pollBit, uploaded, aiResp, timestamps, cap, idx,
      captured, decoded, failed, written, outcome, ret, gi, geoResp, locations, response,
      called, server, batch>>

NoAnswer == AiAnswer("none", <<>>)

NoGeoAnswer == GeoAnswer("none", JAbsent, JAbsent, JAbsent)

NoResponse == [status |-> 0, detail |-> "", locations |-> <<>>]

\* raise HTTPException(status_code=404, detail=...)
NotCaptured ==
    [status |-> 404,
     detail |-> "No locations could be identified and captured from the video.",
     locations |-> <<>>]

NotIdentified ==
    [status |-> 404,
     detail |-> "Location images were captured, but could not be identified.",
     locations |-> <<>>]

\* an exception that leaves the handler: the framework answers 500
ServerError == [status |-> 500, detail |-> "Internal Server Error", locations |-> <<>>]

\* return {"locations": locations}
Ok(locs) == [status |-> 200, detail |-> "", locations |-> locs]

\* The captures directory as earlier runs may have left it: empty, or with a
\* frame of an earlier video (0) still in it.
EmptyDir == [f \in Paths |-> NoFile]

LeftoverDir == [EmptyDir EXCEPT ![FramePath(0)] = FrameFile(0, 0)]

\* The server process before main.py is imported; dir: the captures
\* directory exists.
Starting(dir) == [pc |-> "import", dir |-> dir, geoAtLoad |-> FALSE, loadImages |-> {}]

NoBatch == [pc |-> "idle", paths |-> <<>>, answer |-> AiAnswer("none", <<>>), i |-> 0, out |-> <<>>]

\* No request is running.
Idle ==
    /\ pc = [p \in Procs |-> "idle"]
    /\ dl = [p \in Procs |-> "none"]
    /\ remote = [p \in Procs |-> FALSE]
    /\ rstate = [p \in Procs |-> "NONE"]
    /\ pollBit = [p \in Procs |-> FALSE]
    /\ uploaded = [p \in Procs |-> 0]
    /\ aiResp = [p \in Procs |-> NoAnswer]
    /\ timestamps = [p \in Procs |-> <<>>]
    /\ cap = [p \in Procs |-> 0]
    /\ idx = [p \in Procs |-> 0]
    /\ captured = [p \in Procs |-> <<>>]
    /\ decoded = [p \in Procs |-> {}]
    /\ failed = [p \in Procs |-> {}]
    /\ written = [p \in Procs |-> {}]
    /\ outcome = [p \in Procs |-> "running"]
    /\ ret = [p \in Procs |-> <<>>]
    /\ gi = [p \in Procs |-> 0]
    /\ geoResp = [p \in Procs |-> NoGeoAnswer]
    /\ locations = [p \in Procs |-> <<>>]
    /\ response = [p \in Procs |-> NoResponse]
    /\ called = [p \in Procs |-> {}]

Init ==
    /\ Idle
    /\ \/ server = Starting(TRUE) /\ fs \in {EmptyDir, LeftoverDir}
       \/ server = Starting(FALSE) /\ fs = EmptyDir
    /\ batch = NoBatch

\* ------------------------------------------------- youtube_utils.py: helpers
Goto(p, label) == pc' = [pc EXCEPT ![p] = label]

\* the next statement of analyze_and_capture_locations
Continue(p, label) == Goto(p, label) /\ UNCHANGED <<outcome, ret>>

\* except Exception as e: print(e); return []   (the finally clause runs next)
ExceptException(p, e) ==
    /\ Goto(p, "finally")
    /\ outcome' = [outcome EXCEPT ![p] = e]
    /\ ret' = [ret EXCEPT ![p] = <<>>]

\* a slip: the failed download is swallowed and the pipeline goes on
ExceptCalledProcessErrorIgnored(p) == Continue(p, "upload")

\* except subprocess.CalledProcessError: ... return []
ExceptCalledProcessError(p) ==
    /\ Goto(p, "finally")
    /\ outcome' = [outcome EXCEPT ![p] = "download_failed"]
    /\ ret' = [ret EXCEPT ![p] = <<>>]

\* isinstance(timestamps, list) and all(isinstance(t, int) for t in timestamps)
IsIntList(a) == a.kind = "list" /\ \A i \in DOMAIN a.elems : a.elems[i].t = "num"

\* The try block of the locator: the deduplicated sorted list, [] on any error.
LocatorResult(a) ==
    IF IsIntList(a) THEN DedupSort([i \in DOMAIN a.elems |-> a.elems[i].n]) ELSE <<>>

\* ------------------------------------------------- youtube_utils.py: actions
\* main.py is imported: "from geoguesser import ..." runs the module body of
\* geoguesser.py, which lists the captures directory (os.listdir raises when
\* it is missing, and the server does not start) and calls
\* get_geolocation_from_images on every image file found there.
ModuleLoad ==
    /\ server.pc = "import"
    /\ server' = IF server.dir
                 THEN [pc |-> "serving", dir |-> TRUE, geoAtLoad |-> TRUE,
                       loadImages |-> {f \in FramePaths : fs[f] /= NoFile}]
                 ELSE [server EXCEPT !.pc = "crashed"]
    /\ UNCHANGED <<pc, fs, dl, remote, rstate, pollBit, uploaded, aiResp, timestamps, cap,
                   idx, captured, decoded, failed, written, outcome, ret, gi, geoResp,
                   locations, response, called, batch>>

\* The request arrives: the handler calls analyze_and_capture_locations.
Receive(p) ==
    /\ server.pc = "serving"
    /\ pc[p] = "idle"
    /\ UNCHANGED <<server, batch>>
    /\ Goto(p, "download")
    /\ UNCHANGED <<fs, dl, remote, rstate, pollBit, uploaded, aiResp, timestamps, cap,
                   idx, captured, decoded, failed, written, outcome, ret, gi, geoResp, locations,
                   response, called>>

\* subprocess.run(["yt-dlp", ..., "-o", downloaded_video_path, video_url], check=True)
\* The tool writes the video to the path, or leaves a file that is already
\* there, or exits non-zero.
Download(p) ==
    /\ pc[p] = "download"
    /\ UNCHANGED <<server, batch>>
    /\ \/ /\ fs' = [fs EXCEPT ![VideoPath] = VideoFile(p)]
          /\ dl' = [dl EXCEPT ![p] = "ok"]
          /\ Continue(p, "upload")
       \/ /\ fs[VideoPath] /= NoFile
          /\ dl' = [dl EXCEPT ![p] = "ok"]
          /\ Continue(p, "upload")
          /\ UNCHANGED fs
       \/ /\ dl' = [dl EXCEPT ![p] = "failed"]
          /\ ExceptCalledProcessError(p)
          /\ UNCHANGED fs
    /\ UNCHANGED <<remote, rstate, pollBit, uploaded, aiResp, timestamps, cap, idx,
                   captured, decoded, failed, written, gi, geoResp, locations, response, called>>

\* video_file = genai.upload_file(path=video_path): the locator starts.
Upload(p) ==
    /\ pc[p] = "upload"
    /\ UNCHANGED <<server, batch>>
    /\ called' = [called EXCEPT ![p] = @ \cup {"locate"}]
    /\ \/ /\ fs[VideoPath] /= NoFile
          /\ remote' = [remote EXCEPT ![p] = TRUE]
          /\ uploaded' = [uploaded EXCEPT ![p] = fs[VideoPath].video]
          /\ \E s \in FileStates : rstate' = [rstate EXCEPT ![p] = s]
          /\ Continue(p, "poll")
       \/ /\ ExceptException(p, "upload_error")
          /\ UNCHANGED <<remote, uploaded, rstate>>
    /\ UNCHANGED <<fs, dl, pollBit, aiResp, timestamps, cap, idx, captured, decoded,
                   failed, written, gi, geoResp, locations, response>>

\* while video_file.state.name == "PROCESSING": video_file = genai.get_file(...)
Poll(p) ==
    /\ pc[p] = "poll"
    /\ UNCHANGED <<server, batch>>
    /\ rstate[p] = "PROCESSING"
    /\ \/ /\ \E s \in FileStates : rstate' = [rstate EXCEPT ![p] = s]
          /\ pollBit' = [pollBit EXCEPT ![p] = ~@]
          /\ UNCHANGED <<pc, outcome, ret>>
       \/ /\ ExceptException(p, "poll_error")
          /\ pollBit' = [pollBit EXCEPT ![p] = FALSE]
          /\ UNCHANGED rstate
    /\ UNCHANGED <<fs, dl, remote, uploaded, aiResp, timestamps, cap, idx, captured,
                   decoded, failed, written, gi, geoResp, locations, response, called>>

\* if video_file.state.name == "FAILED": raise Exception(...)   (before the try)
CheckState(p) ==
    /\ pc[p] = "poll"
    /\ UNCHANGED <<server, batch>>
    /\ rstate[p] /= "PROCESSING"
    /\ pollBit' = [pollBit EXCEPT ![p] = FALSE]
    /\ IF rstate[p] = "FAILED" THEN ExceptException(p, "processing_failed") ELSE Continue(p, "generate")
    /\ UNCHANGED <<fs, dl, remote, rstate, uploaded, aiResp, timestamps, cap, idx,
                   captured, decoded, failed, written, gi, geoResp, locations, response, called>>

\* try: response = model.generate_content(...); json.loads; validate;
\*      return sorted(list(set(timestamps)))
\* except Exception: return []
Generate(p, answers) ==
    /\ pc[p] = "generate"
    /\ UNCHANGED <<server, batch>>
    /\ \E a \in answers :
          /\ aiResp' = [aiResp EXCEPT ![p] = a]
          /\ timestamps' = [timestamps EXCEPT ![p] = LocatorResult(a)]
    /\ Continue(p, "delete_remote")
    /\ UNCHANGED <<fs, dl, remote, rstate, pollBit, uploaded, cap, idx, captured,
                   decoded, failed, written, gi, geoResp, locations, response, called>>

\* finally: genai.delete_file(video_file.name); the locator returns, or the
\* delete raises and the locator's result is lost.
DeleteRemote(p) ==
    /\ pc[p] = "delete_remote"
    /\ UNCHANGED <<server, batch>>
    /\ aiResp' = [aiResp EXCEPT ![p] = NoAnswer]
    /\ \/ /\ remote' = [remote EXCEPT ![p] = FALSE]
          /\ Continue(p, "check_timestamps")
          /\ UNCHANGED timestamps
       \/ /\ ExceptException(p, "delete_error")
          /\ timestamps' = [timestamps EXCEPT ![p] = <<>>]
          /\ UNCHANGED remote
    /\ UNCHANGED <<fs, dl, rstate, pollBit, uploaded, cap, idx, captured, decoded,
                   failed, written, gi, geoResp, locations, response, called>>

\* if not timestamps: return []
NoTimestamps(p) ==
    /\ pc[p] = "check_timestamps"
    /\ UNCHANGED <<server, batch>>
    /\ timestamps[p] = <<>>
    /\ Goto(p, "finally")
    /\ outcome' = [outcome EXCEPT ![p] = "no_timestamps"]
    /\ ret' = [ret EXCEPT ![p] = <<>>]
    /\ UNCHANGED <<fs, dl, remote, rstate, pollBit, uploaded, aiResp, timestamps, cap,
                   idx, captured, decoded, failed, written, gi, geoResp, locations, response,
                   called>>

\* cap = cv2.VideoCapture(downloaded_video_path); if not cap.isOpened(): raise
OpenCapture(p) ==
    /\ pc[p] = "check_timestamps"
    /\ UNCHANGED <<server, batch>>
    /\ timestamps[p] /= <<>>
    /\ called' = [called EXCEPT ![p] = @ \cup {"capture"}]
    /\ \/ /\ fs[VideoPath] /= NoFile
          /\ cap' = [cap EXCEPT ![p] = fs[VideoPath].video]
          /\ idx' = [idx EXCEPT ![p] = 1]
          /\ Continue(p, "capture")
       \/ /\ ExceptException(p, "open_failed")
          /\ UNCHANGED <<cap, idx>>
    /\ UNCHANGED <<fs, dl, remote, rstate, pollBit, uploaded, aiResp, timestamps,
                   captured, decoded, failed, written, gi, geoResp, locations, response>>

\* a slip: the loop stops at the first offset that cannot be decoded
CaptureDecodeFailedBreak(p) ==
    /\ failed' = [failed EXCEPT ![p] = @ \cup {timestamps[p][idx[p]]}]
    /\ idx' = [idx EXCEPT ![p] = Len(timestamps[p]) + 1]
    /\ Continue(p, "capture")
    /\ UNCHANGED <<fs, captured, decoded, written>>

\* else: print("Failed to capture frame"): on to the next offset
CaptureDecodeFailed(p) ==
    /\ failed' = [failed EXCEPT ![p] = @ \cup {timestamps[p][idx[p]]}]
    /\ idx' = [idx EXCEPT ![p] = @ + 1]
    /\ Continue(p, "capture")
    /\ UNCHANGED <<fs, captured, decoded, written>>

\* if ret: cv2.imwrite(image_path, frame); captured_image_paths.append(image_path)
CaptureDecoded(p) ==
    LET ts == timestamps[p][idx[p]] IN
    /\ fs' = [fs EXCEPT ![FramePath(ts)] = FrameFile(cap[p], ts)]
    /\ captured' = [captured EXCEPT ![p] = Append(@, FramePath(ts))]
    /\ decoded' = [decoded EXCEPT ![p] = @ \cup {ts}]
    /\ written' = [written EXCEPT ![p] = @ \cup {FramePath(ts)}]
    /\ idx' = [idx EXCEPT ![p] = @ + 1]
    /\ Continue(p, "capture")
    /\ UNCHANGED failed

\* for ts in timestamps: cap.set(POS_MSEC, ts * 1000); ret, frame = cap.read()
CaptureFrame(p) ==
    /\ pc[p] = "capture"
    /\ UNCHANGED <<server, batch>>
    /\ idx[p] <= Len(timestamps[p])
    /\ \/ CaptureDecoded(p)
       \/ CaptureDecodeFailed(p)
       \/ /\ ExceptException(p, "capture_error")
          /\ UNCHANGED <<fs, captured, decoded, failed, written, idx>>
    /\ UNCHANGED <<dl, remote, rstate, pollBit, uploaded, aiResp, timestamps, cap, gi, geoResp,
                   locations, response, called>>

\* cap.release(); return captured_image_paths
ReleaseCapture(p) ==
    /\ pc[p] = "capture"
    /\ UNCHANGED <<server, batch>>
    /\ idx[p] > Len(timestamps[p])
    /\ cap' = [cap EXCEPT ![p] = 0]
    /\ Goto(p, "finally")
    /\ outcome' = [outcome EXCEPT ![p] = "captured"]
    /\ ret' = [ret EXCEPT ![p] = captured[p]]
    /\ UNCHANGED <<fs, dl, remote, rstate, pollBit, uploaded, aiResp, timestamps, idx,
                   captured, decoded, failed, written, gi, geoResp, locations, response, called>>

\* finally: if os.path.exists(downloaded_video_path):
FinallyExists(p) ==
    /\ pc[p] = "finally"
    /\ UNCHANGED <<server, batch>>
    /\ IF fs[VideoPath] /= NoFile THEN Goto(p, "remove") ELSE Goto(p, "returned")
    /\ UNCHANGED <<fs, dl, remote, rstate, pollBit, uploaded, aiResp, timestamps, cap,
                   idx, captured, decoded, failed, written, outcome, ret, gi, geoResp, locations,
                   response, called>>

\* a slip: the finally clause forgets os.remove
FinallyRemoveForgotten(p) ==
    /\ pc[p] = "remove"
    /\ UNCHANGED <<server, batch>>
    /\ Goto(p, "returned")
    /\ UNCHANGED <<fs, dl, remote, rstate, pollBit, uploaded, aiResp, timestamps, cap,
                   idx, captured, decoded, failed, written, outcome, ret, gi, geoResp, locations,
                   response, called>>

\* os.remove(downloaded_video_path): a path that is gone by now raises
\* FileNotFoundError out of the finally clause and out of the handler.
FinallyRemove(p) ==
    /\ pc[p] = "remove"
    /\ UNCHANGED <<server, batch>>
    /\ IF fs[VideoPath] /= NoFile
       THEN /\ fs' = [fs EXCEPT ![VideoPath] = NoFile]
            /\ Goto(p, "returned")
            /\ UNCHANGED response
       ELSE /\ response' = [response EXCEPT ![p] = ServerError]
            /\ Goto(p, "done")
            /\ UNCHANGED fs
    /\ UNCHANGED <<dl, remote, rstate, pollBit, uploaded, aiResp, timestamps, cap, idx,
                   captured, decoded, failed, written, outcome, ret, gi, geoResp, locations,
                   called>>

\* ------------------------------------------------------------ geoguesser.py
\* The record one image contributes to all_locations (none: <<>>).
\*   location_data = json.loads(response_text)
\*   location_data['latitude'] = float(lat) if lat is not None else None
\*   location_data['longitude'] = float(lng) if lng is not None else None
\*   if location_data.get("name") and location_data["name"] is not None: append
\* Every exception is caught and the loop continues with the next image.
ImageRecord(a) ==
    [name |-> a.name,
     latitude |-> CoerceCoordinate(DictGet(a.latitude)),
     longitude |-> CoerceCoordinate(DictGet(a.longitude))]

\* a slip: the record is appended whatever its name
ImageResultAnyName(a) ==
    IF a.kind /= "object" THEN <<>>
    ELSE IF ImageRecord(a).latitude = JRaise \/ ImageRecord(a).longitude = JRaise THEN <<>>
    ELSE <<ImageRecord(a)>>

ImageResult(a) ==
    IF a.kind /= "object" THEN <<>>
    ELSE IF ImageRecord(a).latitude = JRaise \/ ImageRecord(a).longitude = JRaise THEN <<>>
    ELSE IF Truthy(DictGet(a.name)) /\ DictGet(a.name) /= JNull THEN <<ImageRecord(a)>>
    ELSE <<>>

\* ------------------------------------------------------------------ main.py
\* if not captured_image_paths: raise HTTPException(status_code=404, ...)
RespondNotCaptured(p) ==
    /\ pc[p] = "returned"
    /\ UNCHANGED <<server, batch>>
    /\ ret[p] = <<>>
    /\ response' = [response EXCEPT ![p] = NotCaptured]
    /\ Goto(p, "done")
    /\ UNCHANGED <<fs, dl, remote, rstate, pollBit, uploaded, aiResp, timestamps, cap,
                   idx, captured, decoded, failed, written, outcome, ret, gi, geoResp, locations,
                   called>>

\* locations = get_geolocation_from_images(captured_image_paths): all_locations = []
StartGeolocation(p) ==
    /\ pc[p] = "returned"
    /\ UNCHANGED <<server, batch>>
    /\ ret[p] /= <<>>
    /\ called' = [called EXCEPT ![p] = @ \cup {"geolocate"}]
    /\ gi' = [gi EXCEPT ![p] = 1]
    /\ locations' = [locations EXCEPT ![p] = <<>>]
    /\ UNCHANGED geoResp
    /\ Goto(p, "geolocate")
    /\ UNCHANGED <<fs, dl, remote, rstate, pollBit, uploaded, aiResp, timestamps, cap,
                   idx, captured, decoded, failed, written, outcome, ret, response>>

\* a slip: break instead of continue, a frame that fails ends the loop
GeolocateImageAbort(p, answers) ==
    /\ pc[p] = "geolocate"
    /\ gi[p] <= Len(ret[p])
    /\ \E a \in answers :
          /\ geoResp' = [geoResp EXCEPT ![p] = a]
          /\ locations' = [locations EXCEPT ![p] = @ \o ImageResult(a)]
          /\ gi' = [gi EXCEPT ![p] = IF ImageResult(a) = <<>> THEN Len(ret[p]) + 1 ELSE @ + 1]
    /\ UNCHANGED <<pc, fs, dl, remote, rstate, pollBit, uploaded, aiResp, timestamps, cap,
                   idx, captured, decoded, failed, written, outcome, ret, response,
                   called, server, batch>>

\* a slip: a record that is already in the list is not appended again
GeolocateImageDedup(p, answers) ==
    /\ pc[p] = "geolocate"
    /\ gi[p] <= Len(ret[p])
    /\ \E a \in answers :
          /\ geoResp' = [geoResp EXCEPT ![p] = a]
          /\ locations' = [locations EXCEPT ![p] =
                              IF fs[ret[p][gi[p]]] = NoFile \/ ImageResult(a) = <<>>
                                 \/ (\E k \in DOMAIN @ : @[k] = ImageResult(a)[1])
                              THEN @ ELSE @ \o ImageResult(a)]
    /\ gi' = [gi EXCEPT ![p] = @ + 1]
    /\ UNCHANGED <<pc, fs, dl, remote, rstate, pollBit, uploaded, aiResp, timestamps, cap,
                   idx, captured, decoded, failed, written, outcome, ret, response,
                   called, server, batch>>

\* for image_path in image_paths: encode the file, ask the model, parse, append.
\* (The finally clause that removed image_path is commented out.)
GeolocateImage(p, answers) ==
    /\ pc[p] = "geolocate"
    /\ UNCHANGED <<server, batch>>
    /\ gi[p] <= Len(ret[p])
    /\ \E a \in answers :
          /\ geoResp' = [geoResp EXCEPT ![p] = a]
          /\ locations' = [locations EXCEPT ![p] =
                              @ \o (IF fs[ret[p][gi[p]]] = NoFile THEN <<>> ELSE ImageResult(a))]
    /\ gi' = [gi EXCEPT ![p] = @ + 1]
    /\ UNCHANGED <<pc, fs, dl, remote, rstate, pollBit, uploaded, aiResp, timestamps, cap,
                   idx, captured, decoded, failed, written, outcome, ret, response,
                   called>>

\* a slip: the check for an empty result is missing
RespondLocationsUnchecked(p) ==
    /\ pc[p] = "geolocate"
    /\ gi[p] > Len(ret[p])
    /\ response' = [response EXCEPT ![p] = Ok(locations[p])]
    /\ Goto(p, "done")
    /\ UNCHANGED <<fs, dl, remote, rstate, pollBit, uploaded, aiResp, timestamps, cap,
                   idx, captured, decoded, failed, written, outcome, ret, gi, geoResp,
                   locations, called, server, batch>>

\* return all_locations; if not locations: raise HTTPException(404, ...);
\* return {"locations": locations}
RespondLocations(p) ==
    /\ pc[p] = "geolocate"
    /\ UNCHANGED <<server, batch>>
    /\ gi[p] > Len(ret[p])
    /\ response' = [response EXCEPT ![p] =
                       IF locations[p] = <<>> THEN NotIdentified ELSE Ok(locations[p])]
    /\ Goto(p, "done")
    /\ UNCHANGED <<fs, dl, remote, rstate, pollBit, uploaded, aiResp, timestamps, cap,
                   idx, captured, decoded, failed, written, outcome, ret, gi, geoResp, locations,
                   called>>

\* ------------------------------------------------------------ specifications
\* One step of invocation p, its two AI services answering from the given sets.
Step(p, timestampAnswers, geoAnswers) ==
    \/ Receive(p)
    \/ Download(p)
    \/ Upload(p)
    \/ Poll(p)
    \/ CheckState(p)
    \/ Generate(p, timestampAnswers)
    \/ DeleteRemote(p)
    \/ NoTimestamps(p)
    \/ OpenCapture(p)
    \/ CaptureFrame(p)
    \/ ReleaseCapture(p)
    \/ FinallyExists(p)
    \/ FinallyRemove(p)
    \/ RespondNotCaptured(p)
    \/ StartGeolocation(p)
    \/ GeolocateImage(p, geoAnswers)
    \/ RespondLocations(p)

\* Two concurrent requests for two different videos.
Next == ModuleLoad \/ \E p \in Procs : Step(p, FewTimestampAnswers, FewGeoAnswers)

Spec == Init /\ [][Next]_vars

\* A single request, with every answer of the AI services.
NextSingle == ModuleLoad \/ Step(1, TimestampAnswers, GeoAnswers)

SpecSingle == Init /\ [][NextSingle]_vars

\* The single invocation with its thread kept running: a step that can be
\* taken is taken in the end (each external call returns).
SpecFair == Init /\ [][NextSingle]_vars /\ WF_vars(NextSingle)

\* ------------------------------------------- geolocation.py: batched mode
\* Longest "locations" array the image AI answers with.
MaxBatch == 2

\* An element of the "locations" array: a JSON object, or a value that is none.
BatchElems ==
    {GeoAnswer("notdict", JAbsent, JAbsent, JAbsent)}
    \cup {GeoAnswer("object", nm, c[1], c[2]) : nm \in GeoNames, c \in GeoCoordinates}

\* What client.chat.completions.create yields: a raised error, an empty text,
\* text that is no JSON, a JSON value that is no object, an object without
\* "locations", one whose "locations" is no array, or one with the array.
BatchAnswers ==
    {AiAnswer(k, <<>>) : k \in {"error", "empty", "badjson", "notdict", "nokey", "notlist"}}
    \cup {AiAnswer("list", l) : l \in SeqsUpTo(BatchElems, MaxBatch)}

\* The image_paths the batched extractor is called with.
BatchPaths == {<<>>, <<FramePath(0)>>, <<FramePath(1), FramePath(0)>>}

\* a run of geolocation.py alone: no server process
NotServing == [pc |-> "none", dir |-> TRUE, geoAtLoad |-> FALSE, loadImages |-> {}]

BatchDone(out) == batch' = [batch EXCEPT !.pc = "done", !.out = out]

\* float(lat) or float(lng) raises inside the loop
BatchElementRaises(e) ==
    /\ e.kind = "object"
    /\ Truthy(DictGet(e.name))
    /\ (ImageRecord(e).latitude = JRaise \/ ImageRecord(e).longitude = JRaise)

\* a slip: every object of the array is taken, whatever its name
BatchElementResultAnyName(e) ==
    IF e.kind = "object" THEN <<ImageRecord(e)>> ELSE <<>>

\* if isinstance(loc, dict) and loc.get("name"): coerce, append   else: skip
BatchElementResult(e) ==
    IF e.kind = "object" /\ Truthy(DictGet(e.name)) THEN <<ImageRecord(e)>> ELSE <<>>

\* get_geolocation_from_image_set(image_paths): if not image_paths: return []
BatchCall ==
    /\ batch.pc = "idle"
    /\ \E paths \in BatchPaths :
          batch' = [batch EXCEPT !.paths = paths,
                                 !.pc = IF paths = <<>> THEN "done" ELSE "encode"]
    /\ UNCHANGED <<pc, fs, dl, remote, rstate, pollBit, uploaded, aiResp, timestamps, cap,
                   idx, captured, decoded, failed, written, outcome, ret, gi, geoResp,
                   locations, response, called, server>>

\* every readable image is encoded; if len(content) <= 1: return []
BatchEncode ==
    /\ batch.pc = "encode"
    /\ IF \A k \in DOMAIN batch.paths : fs[batch.paths[k]] = NoFile
       THEN BatchDone(<<>>)
       ELSE batch' = [batch EXCEPT !.pc = "request"]
    /\ UNCHANGED <<pc, fs, dl, remote, rstate, pollBit, uploaded, aiResp, timestamps, cap,
                   idx, captured, decoded, failed, written, outcome, ret, gi, geoResp,
                   locations, response, called, server>>

\* the API call, json.loads, raw_data.get("locations"), the two checks of it
BatchRequest ==
    /\ batch.pc = "request"
    /\ \E a \in BatchAnswers :
          batch' = [batch EXCEPT !.answer = a,
                                 !.pc = IF a.kind = "list" THEN "loop" ELSE "done",
                                 !.i = 1,
                                 !.out = <<>>]
    /\ UNCHANGED <<pc, fs, dl, remote, rstate, pollBit, uploaded, aiResp, timestamps, cap,
                   idx, captured, decoded, failed, written, outcome, ret, gi, geoResp,
                   locations, response, called, server>>

\* for loc in locations_data: ...   (an exception ends the call with [])
BatchElement ==
    /\ batch.pc = "loop"
    /\ batch.i <= Len(batch.answer.elems)
    /\ IF BatchElementRaises(batch.answer.elems[batch.i])
       THEN BatchDone(<<>>)
       ELSE batch' = [batch EXCEPT !.i = @ + 1,
                                   !.out = @ \o BatchElementResult(batch.answer.elems[batch.i])]
    /\ UNCHANGED <<pc, fs, dl, remote, rstate, pollBit, uploaded, aiResp, timestamps, cap,
                   idx, captured, decoded, failed, written, outcome, ret, gi, geoResp,
                   locations, response, called, server>>

\* return all_locations
BatchReturn ==
    /\ batch.pc = "loop"
    /\ batch.i > Len(batch.answer.elems)
    /\ BatchDone(batch.out)
    /\ UNCHANGED <<pc, fs, dl, remote, rstate, pollBit, uploaded, aiResp, timestamps, cap,
                   idx, captured, decoded, failed, written, outcome, ret, gi, geoResp,
                   locations, response, called, server>>

InitBatch ==
    /\ Idle
    /\ server = NotServing
    /\ fs \in {EmptyDir, LeftoverDir}
    /\ batch = NoBatch

NextBatch == BatchCall \/ BatchEncode \/ BatchRequest \/ BatchElement \/ BatchReturn

\* One call of the batched extractor, with every answer of the image AI.
SpecBatch == InitBatch /\ [][NextBatch]_vars

\* ------------------------------------------------------------------ claims
\* The labels at which analyze_and_capture_locations has returned.
Returned == {"returned", "geolocate", "done"}

\* The labels at which the scene locator has ended.
LocatorEnded == {"check_timestamps", "capture", "finally", "remove"} \cup Returned

\* The labels between a download and the end of the finally clause.
UsingVideo ==
    {"upload", "poll", "generate", "delete_remote", "check_timestamps", "capture",
     "finally", "remove"}

\* C1: once an invocation has ended (200, either 404, or an exception), no
\* frame file its capture step wrote is left in the captures directory.
C1_NoFrameFileRemains ==
    \A p \in Procs : pc[p] = "done" => \A f \in written[p] : fs[f] = NoFile

\* C2: for a single request, the downloaded video file does not exist once
\* analyze_and_capture_locations has returned, whatever the exit path.
C2_VideoRemovedOnReturn ==
    pc[1] \in Returned => fs[VideoPath] = NoFile

\* C2 witness: a normal return with frames, after a download that wrote the file.
C2_Witness ==
    /\ pc[1] = "returned"
    /\ dl[1] = "ok"
    /\ outcome[1] = "captured"
    /\ Len(ret[1]) >= 2

\* C3: of two concurrent requests, each analyses and samples the video it
\* downloaded itself, its video file stays the one it downloaded until its own
\* cleanup, and the frame files it wrote keep the frames of its own video.
C3_NoInterference ==
    \A p \in Procs :
        /\ uploaded[p] \in {0, p}
        /\ cap[p] \in {0, p}
        /\ (dl[p] = "ok" /\ pc[p] \in UsingVideo) => fs[VideoPath] = VideoFile(p)
        /\ \A f \in written[p] : fs[f].video = p

\* C4: a request whose download failed is never answered with one of the two
\* responses of the 'no locations found' outcomes.
C4_DownloadFailureDistinct ==
    \A p \in Procs :
        (pc[p] = "done" /\ dl[p] = "failed") => response[p] \notin {NotCaptured, NotIdentified}

\* C5: an invocation whose download failed never invokes the scene locator,
\* the frame capture or the image geolocation.
C5_NothingAfterFailedDownload ==
    \A p \in Procs : dl[p] = "failed" => called[p] = {}

\* C5 witness: an invocation with a failed download has been answered.
C5_Witness ==
    \E p \in Procs : dl[p] = "failed" /\ pc[p] = "done" /\ response[p].status = 404

\* C6: when the download succeeded and the locator returned an empty list,
\* capture and geolocation are skipped, no list is returned, and the answer is
\* the 404 not-found response, not a server error.
C6_EmptyOffsetsNotFound ==
    \A p \in Procs :
        (pc[p] = "done" /\ dl[p] = "ok" /\ outcome[p] = "no_timestamps")
            => /\ called[p] = {"locate"}
               /\ response[p] = NotCaptured

StrictlyAscending(s) == \A i, j \in DOMAIN s : i < j => s[i] < s[j]

\* C7: whatever integer list the AI answers with, the offsets handed to frame
\* capture are strictly ascending, are exactly the distinct values of the
\* list, and are left unchanged by a second dedup-and-sort.
C7_OffsetsDedupSorted ==
    \A p \in Procs :
        /\ StrictlyAscending(timestamps[p])
        /\ DedupSort(timestamps[p]) = timestamps[p]
        /\ (pc[p] = "delete_remote" /\ IsIntList(aiResp[p]))
               => SetOf(timestamps[p]) = {aiResp[p].elems[i].n : i \in DOMAIN aiResp[p].elems}

\* C7 witness: the answer [1, -1, 1] has become the offsets [-1, 1].
C7_Witness ==
    /\ pc[1] = "delete_remote"
    /\ aiResp[1] = AiAnswer("list", <<JNum(1), JNum(-1), JNum(1)>>)
    /\ timestamps[1] = <<-1, 1>>

\* C8: every record of a 200 response has a name that is neither absent nor
\* null nor the empty string, and no such candidate is ever in all_locations.
C8_NamesNonEmpty ==
    \A p \in Procs :
        /\ \A i \in DOMAIN locations[p] :
               locations[p][i].name \notin {JAbsent, JNull, JStr("")}
        /\ response[p].status = 200
               => /\ response[p].locations = locations[p]
                  /\ locations[p] /= <<>>

\* C8 witness: a 200 response of two frames whose second candidate had an
\* empty name and was left out.
C8_Witness ==
    /\ pc[1] = "done"
    /\ response[1].status = 200
    /\ Len(ret[1]) = 2
    /\ geoResp[1] = GeoAnswer("object", JStr(""), JNum(37), JNum(127))
    /\ Len(response[1].locations) = 1

RECURSIVE FramesOf(_, _)
\* the paths of the offsets of s that are in ok, in the order of s
FramesOf(s, ok) ==
    IF s = <<>> THEN <<>>
    ELSE (IF Head(s) \in ok THEN <<FramePath(Head(s))>> ELSE <<>>) \o FramesOf(Tail(s), ok)

\* C9: frame capture returns, in the order of the offsets, one frame for each
\* offset that decoded and none for one that did not, and it tries every
\* offset of the list.
C9_OneFramePerDecodedOffset ==
    \A p \in Procs :
        outcome[p] = "captured"
            => /\ decoded[p] \cup failed[p] = SetOf(timestamps[p])
               /\ decoded[p] \cap failed[p] = {}
               /\ ret[p] = FramesOf(timestamps[p], decoded[p])

\* C9 witness: of the offsets -1, 0, 1 the middle one failed to decode and
\* the two others were captured.
C9_Witness ==
    /\ outcome[1] = "captured"
    /\ timestamps[1] = <<-1, 0, 1>>
    /\ failed[1] = {0}
    /\ ret[1] = <<FramePath(-1), FramePath(1)>>

\* C10: once the locator has ended after a successful upload, its upload
\* handle is gone from the remote service: after a successful analysis, a
\* malformed answer, an exception during the analysis, and the FAILED state.
C10_HandleReleased ==
    \A p \in Procs :
        (pc[p] \in LocatorEnded /\ outcome[p] \notin {"poll_error", "delete_error"})
            => ~remote[p]

\* C11: on every failure (failed upload, FAILED state, error of the analysis
\* call, an answer that is no list of integers, failed delete of the handle)
\* the locator returns an empty list and raises nothing to its caller.
C11_LocatorNeverRaises ==
    \A p \in Procs :
        /\ outcome[p] \notin {"upload_error", "processing_failed", "delete_error"}
        /\ (pc[p] = "delete_remote" /\ ~IsIntList(aiResp[p])) => timestamps[p] = <<>>

\* A candidate names a place: its name is a non-empty text.
NameGiven(a) == a.name.t = "str" /\ a.name.s /= ""

\* A coordinate float() can take, or none at all.
Parseable(v) == v.t \in {"absent", "null", "num"} \/ (v.t = "str" /\ ParseFloat(v.s) /= JRaise)

\* The frame contributes nothing: its file cannot be read, the AI call fails,
\* answers nothing or no JSON object, or the object is not accepted.
FrameFailed(a, file) ==
    \/ file = NoFile
    \/ a.kind /= "object"
    \/ ~NameGiven(a)
    \/ ~Parseable(a.latitude)
    \/ ~Parseable(a.longitude)

\* C12: in per-image mode a frame that fails leaves all_locations as it was
\* and the loop goes on to the next frame; a frame that does not fail appends
\* its record; the loop ends only after the last frame.
C12_FrameFailureIsLocal ==
    [][\A p \in Procs :
          /\ (pc[p] = "geolocate" /\ gi'[p] /= gi[p])
                => /\ gi'[p] = gi[p] + 1
                   /\ locations'[p] =
                          IF FrameFailed(geoResp'[p], fs[ret[p][gi[p]]])
                          THEN locations[p]
                          ELSE Append(locations[p], ImageRecord(geoResp'[p]))
          /\ (pc[p] = "geolocate" /\ pc'[p] /= "geolocate")
                => gi[p] = Len(ret[p]) + 1]_vars

\* C12 witness: of two frames the first contributed nothing and the second
\* was still processed and accepted.
C12_Witness ==
    /\ pc[1] = "geolocate"
    /\ Len(ret[1]) = 2
    /\ gi[1] = 3
    /\ ~FrameFailed(geoResp[1], fs[ret[1][2]])
    /\ Len(locations[1]) = 1

\* C13: the response of a request whose capture stage returned is decided by
\* the stage results: 404 'not captured' exactly for zero frames, 404
\* 'not identified' exactly for frames but zero records, 200 with the
\* records otherwise; a 200 response never has an empty list.
C13_ResponseByStageResults ==
    \A p \in Procs :
        (pc[p] = "done" /\ response[p] /= ServerError)
            => /\ response[p] = NotCaptured <=> ret[p] = <<>>
               /\ response[p] = NotIdentified <=> (ret[p] /= <<>> /\ locations[p] = <<>>)
               /\ response[p].status = 200 <=> (ret[p] /= <<>> /\ locations[p] /= <<>>)
               /\ response[p].status = 200 => response[p] = Ok(locations[p])
               /\ response[p].status \in {200, 404}

\* C13 witness: frames were captured, none was identified, and the answer is
\* the second 404.
C13_Witness ==
    /\ pc[1] = "done"
    /\ Len(ret[1]) >= 1
    /\ locations[1] = <<>>
    /\ response[1] = NotIdentified

RECURSIVE NamedElements(_)
\* the objects of an array that name a place, in the order of the array
NamedElements(l) ==
    IF l = <<>> THEN <<>>
    ELSE (IF Head(l).kind = "object" /\ NameGiven(Head(l)) THEN <<ImageRecord(Head(l))>> ELSE <<>>)
         \o NamedElements(Tail(l))

\* C14: in batched mode, when every coordinate of the answer is a number or
\* null, the result is the objects of "locations" with a non-empty name, in
\* their order; it is empty when the answer is empty, no JSON object, without
\* "locations", or "locations" is no array.
C14_BatchKeepsNamedElements ==
    (batch.pc = "done" /\ batch.answer.kind /= "none")
        => /\ batch.answer.kind /= "list" => batch.out = <<>>
           /\ (/\ batch.answer.kind = "list"
               /\ \A k \in DOMAIN batch.answer.elems :
                     /\ Parseable(batch.answer.elems[k].latitude)
                     /\ Parseable(batch.answer.elems[k].longitude))
                 => batch.out = NamedElements(batch.answer.elems)

\* C14 witness: 'Cafe A' and an entry with an empty name gave the one record
\* of 'Cafe A'.
C14_Witness ==
    /\ batch.pc = "done"
    /\ batch.answer.elems = <<GeoAnswer("object", JStr("Cafe A"), JNum(37), JNum(127)),
                              GeoAnswer("object", JStr(""), JNum(37), JNum(127))>>
    /\ batch.out = <<[name |-> JStr("Cafe A"), latitude |-> JFloat(37), longitude |-> JFloat(127)]>>


\* float-style parsing that gives None for what it cannot parse
LenientCoordinate(v) ==
    IF CoerceCoordinate(DictGet(v)) = JRaise THEN JNull ELSE CoerceCoordinate(DictGet(v))

RECURSIVE NamedElementsLenient(_)
\* the named objects of an array, each unparseable coordinate set to None
NamedElementsLenient(l) ==
    IF l = <<>> THEN <<>>
    ELSE (IF Head(l).kind = "object" /\ NameGiven(Head(l))
          THEN <<[name |-> Head(l).name,
                  latitude |-> LenientCoordinate(Head(l).latitude),
                  longitude |-> LenientCoordinate(Head(l).longitude)]>>
          ELSE <<>>)
         \o NamedElementsLenient(Tail(l))

\* C15: a named record whose latitude or longitude is present and cannot be
\* parsed as a number is accepted with that coordinate absent: a batched call
\* whose answer is an array returns every named object of it, the records
\* accepted before the unparseable value included.
C15_UnparseableCoordinateAccepted ==
    (batch.pc = "done" /\ batch.answer.kind = "list")
        => batch.out = NamedElementsLenient(batch.answer.elems)


\* C16: a record whose name is only whitespace is discarded: no location of a
\* request has such a name.
C16_WhitespaceNameDiscarded ==
    \A p \in Procs : \A k \in DOMAIN locations[p] : locations[p][k].name /= JStr(" ")

\* C17: every offset the scene locator has returned, and frame capture seeks
\* to, is non-negative.
C17_OffsetsNonNegative ==
    \A p \in Procs :
        pc[p] \in {"check_timestamps", "capture"}
            => \A k \in DOMAIN timestamps[p] : timestamps[p][k] >= 0


\* the offset in the name of a frame file
OffsetOf(path) == path[3]

\* C18: the list returned to the caller is in discovery order and keeps
\* duplicates: the frames are visited in ascending offset, the record of a
\* frame goes to the end of the list behind the records of the earlier
\* frames, also when an equal record is already in the list, and the 200
\* response carries the list as it was built.
C18_DiscoveryOrderNoDedup ==
    [][\A p \in Procs :
          /\ (pc[p] = "geolocate" /\ gi'[p] /= gi[p])
                => /\ \A k \in 1..(gi[p] - 1) : OffsetOf(ret[p][k]) < OffsetOf(ret[p][gi[p]])
                   /\ \/ locations'[p] = locations[p]
                      \/ /\ Len(locations'[p]) = Len(locations[p]) + 1
                         /\ SubSeq(locations'[p], 1, Len(locations[p])) = locations[p]
                         /\ locations'[p][Len(locations'[p])].name = geoResp'[p].name
                   /\ (/\ ~FrameFailed(geoResp'[p], fs[ret[p][gi[p]]])
                       /\ \E k \in DOMAIN locations[p] : locations[p][k].name = geoResp'[p].name)
                         => Len(locations'[p]) = Len(locations[p]) + 1
          /\ (pc[p] = "geolocate" /\ pc'[p] = "done" /\ response'[p].status = 200)
                => response'[p].locations = locations[p]]_vars

\* C18 witness: two frames both answered 'Cafe A', and the caller got two
\* records of it.
C18_Witness ==
    /\ pc[1] = "done"
    /\ Len(ret[1]) = 2
    /\ response[1].status = 200
    /\ Len(response[1].locations) = 2
    /\ response[1].locations[1] = response[1].locations[2]
    /\ response[1].locations[1].name = JStr("Cafe A")


\* C19: the server process calls the image geolocation only inside an
\* invocation, after the download, the locator and the capture of that
\* invocation, and with the frame paths that capture returned; it does not
\* call it at module load.
C19_GeolocationOnlyInPipeline ==
    /\ ~server.geoAtLoad
    /\ \A p \in Procs :
          "geolocate" \in called[p]
              => /\ outcome[p] = "captured"
                 /\ dl[p] = "ok"
                 /\ {"locate", "capture"} \subseteq called[p]
                 /\ ret[p] = captured[p]
                 /\ ret[p] /= <<>>


\* C20: every invocation ends with a response (location list, not found,
\* download failed or server error), each external call returning; the wait
\* for the upload to leave PROCESSING ends also when the remote service keeps
\* reporting PROCESSING.
C20_EveryInvocationEnds == (pc[1] = "download") ~> (pc[1] = "done")

====
